---------------------------- MODULE Spec2Model ----------------------------
(***************************************************************************)
(* A model of PDFChapterSplitter (src/split_by_section.py): the outline    *)
(* walk of _extract_outline, the sort and de-duplication of the sections,  *)
(* the per-section loop of split_pdf and the constructor's report.         *)
(*                                                                         *)
(* A document is a record                                                  *)
(*   kind  : "missing"   the input path does not exist                     *)
(*           "corrupt"   pikepdf.open raises                               *)
(*           "nooutline" the outline root is None                          *)
(*           "ok"        the outline root is the list of the root nodes    *)
(*   nodes : the outline nodes; a node's id is its index, its parent is a  *)
(*           smaller id (0: a root node), children are in id order         *)
(*   pages : the page list, each page given by the id of its page object   *)
(* A title is a sequence of one-character strings; a section is a pair     *)
(* <<title, pageIndex>> with a zero-based pageIndex, as in the source.     *)
(***************************************************************************)
EXTENDS Integers, Sequences, FiniteSets

VARIABLES
    doc,         \* the input document at self.input_pdf
    debug,       \* self.debug
    pc,          \* position of the run
    dirExists,   \* whether self.output_dir exists
    files,       \* the files of the output directory
    out,         \* what print() has written
    sections,    \* the local variable sections of split_pdf
    numPages,    \* len(reader.pages), NoReader before PdfReader has opened
    results,     \* outcome of each iteration of the per-section loop so far
    exc,         \* the exception propagating out of split_pdf
    firstRun     \* the output of the previous run of the program, if any

vars == <<doc, debug, pc, dirExists, files, out, sections, numPages,
          results, exc, firstRun>>

\* ------------------------------------------------------------------ bounds

MaxNodes == 3

MaxBookmarks == 3

MaxPages == 3

\* ----------------------------------------------------------- small helpers

ToSet(s) == {s[k] : k \in 1..Len(s)}

Take(s, n) == SubSeq(s, 1, IF Len(s) < n THEN Len(s) ELSE n)

Last(s) == s[Len(s)]

\* variant of RangeSeq that includes the end page
RangeInclusive(a, b) == [k \in 1..(IF b >= a THEN b - a + 1 ELSE 0) |-> a + k - 1]

\* range(a, b) as a sequence
RangeSeq(a, b) == [k \in 1..(IF b > a THEN b - a ELSE 0) |-> a + k - 1]

NoReader == -1

NoException == "none"

\* ------------------------------------------------------ _sanitize_filename

InvalidChars == {"<", ">", ":", "\"", "/", "\\", "|", "?", "*"}

Whitespace == {" ", "\t", "\n", "\r", "\f"}

MaxFilenameLen == 50

RECURSIVE LStrip(_)
LStrip(s) == IF s # <<>> /\ Head(s) \in Whitespace THEN LStrip(Tail(s)) ELSE s

RECURSIVE RStrip(_, _)
RStrip(s, chars) ==
    IF s # <<>> /\ Last(s) \in chars THEN RStrip(SubSeq(s, 1, Len(s) - 1), chars)
    ELSE s

SectionFallback == <<"s", "e", "c", "t", "i", "o", "n">>

SanitizeFilename(title) ==
    LET kept     == SelectSeq(title, LAMBDA c : c \notin InvalidChars)
        stripped == RStrip(LStrip(kept), Whitespace)
        filename == RStrip(Take(stripped, MaxFilenameLen), {"."})
    IN  IF filename # <<>> THEN filename ELSE SectionFallback

\* f"{str(i+1).zfill(2)}_{safe_title}.pdf": the ordinal's digits end at the
\* first "_", so the name determines the pair and the pair the name.
OutputFilename(i, title) == <<i + 1, SanitizeFilename(title)>>

\* ------------------------------------------------------------ outline walk

NoDest == 0

\* variant of ResolveDestination without the break: the last match
ResolveLastMatch(pages, title, obj) ==
    LET hits == {i \in 0..(Len(pages) - 1) : pages[i + 1] = obj}
    IN  IF hits = {} THEN <<>>
        ELSE <<  <<title, CHOOSE i \in hits : \A j \in hits : j <= i>>  >>

\* for i, page in enumerate(pdf.pages): if page.obj == page_obj: ... break
\* the sections this loop appends: the first matching index, or nothing
ResolveDestination(pages, title, obj) ==
    LET hits == {i \in 0..(Len(pages) - 1) : pages[i + 1] = obj}
    IN  IF hits = {} THEN <<>>
        ELSE <<  <<title, CHOOSE i \in hits : \A j \in hits : i <= j>>  >>

\* process_outlines(outlines, pdf), outlines being the children of node p
\* (p = 0: outlines.root), from the first child of id k or more on: the
\* children of p are the nodes of parent p, in id order.
\* A node's fault is where processing it raises: "resolve" before its own
\* section is appended, "children" after it. The try encloses the for loop,
\* so the exception ends the loop and the sections gathered so far are
\* returned; the caller (line 74) receives them as an ordinary result.
RECURSIVE ProcessFrom(_, _, _)
ProcessFrom(d, p, k) ==
    IF k > Len(d.nodes) THEN <<>>
    ELSE IF d.nodes[k].parent # p THEN ProcessFrom(d, p, k + 1)
    ELSE LET node == d.nodes[k]
             own  == IF node.dest # NoDest
                     THEN ResolveDestination(d.pages, node.title, node.dest)
                     ELSE <<>>
         IN  IF ~node.hasTitle THEN ProcessFrom(d, p, k + 1)
             ELSE IF node.fault = "resolve" THEN <<>>
             ELSE IF node.fault = "children" THEN own
             ELSE own \o ProcessFrom(d, k, k + 1) \o ProcessFrom(d, p, k + 1)

ProcessOutlines(d, p) == ProcessFrom(d, p, 1)

\* _extract_outline: what it returns for document d. pikepdf.open raising
\* is caught (line 92) and a root of None returns early (line 85).
ExtractOutlineOf(d) ==
    IF d.kind = "corrupt" THEN <<>>
    ELSE IF d.kind = "nooutline" THEN <<>>
    ELSE ProcessOutlines(d, 0)

\* --------------------------------------------------------------- documents

TitleA == <<"A">>

TitleB == <<"B", "/">>

EndTitle == <<"E", "n", "d">>

Titles == {TitleA, TitleB}

\* ids of the page objects the walk's documents are built from
PageObjs == {1, 2}

Node(p, t, dst, flt) ==
    [parent |-> p, hasTitle |-> TRUE, title |-> t, dest |-> dst, fault |-> flt]

Untitled(p, dst) ==
    [parent |-> p, hasTitle |-> FALSE, title |-> <<>>, dest |-> dst,
     fault |-> "none"]

MissingDoc == [kind |-> "missing", nodes |-> <<>>, pages |-> <<>>]

CorruptDoc == [kind |-> "corrupt", nodes |-> <<>>, pages |-> <<>>]

\* page i (one-based) is the page object with id i
DistinctPages(n) == [i \in 1..n |-> i]

\* The documents of Spec: a missing or undecodable input, a document without
\* outline, and documents of MaxPages pages whose outline is a list of up
\* to MaxBookmarks titled bookmarks, each without destination (NoDest) or
\* pointing at one of the pages.
BookmarkLists ==
    UNION {[1..n -> {Node(0, t, dst, "none") : t \in Titles, dst \in 0..MaxPages}]
           : n \in 0..MaxBookmarks}

MainDocs ==
    {MissingDoc, CorruptDoc,
     [kind |-> "nooutline", nodes |-> <<>>, pages |-> DistinctPages(MaxPages)]}
    \cup {[kind |-> "ok", nodes |-> ns, pages |-> DistinctPages(MaxPages)]
          : ns \in BookmarkLists}

\* The documents of SpecWalk: outline trees of up to MaxNodes nodes of every
\* shape, each node untitled, titled without destination, titled with a
\* destination, or raising while it is processed; the list of MaxPages
\* pages may hold a page object twice and may lack a destination's target.
NodeKinds(p) ==
    {Untitled(p, 1), Node(p, TitleA, NoDest, "none"),
     Node(p, TitleA, 1, "none"), Node(p, TitleB, 2, "none"),
     Node(p, TitleA, 1, "resolve"), Node(p, TitleB, 2, "children")}

RECURSIVE TreesOf(_)
TreesOf(n) ==
    IF n = 0 THEN {<<>>}
    ELSE {Append(t, nd) : t \in TreesOf(n - 1),
                          nd \in UNION {NodeKinds(p) : p \in 0..(n - 1)}}

OutlineTrees(maxNodes) == UNION {TreesOf(n) : n \in 1..maxNodes}

\* the page lists of n pages over the page objects
PageLists(n) == [1..n -> PageObjs]

WalkDocs(maxNodes, n) ==
    {[kind |-> "ok", nodes |-> ns, pages |-> ps]
       : ns \in OutlineTrees(maxNodes), ps \in PageLists(n)}

\* ------------------------------------------------------------------ output

Msg(kind, arg) == [kind |-> kind, arg |-> arg]

NotFoundError == "Input PDF not found"

ReaderError == "PdfReader failed"

NoOutlineMsg == Msg("No valid outline found in PDF. Cannot split.", <<>>)

SuccessMsg == Msg("Successfully split PDF into sections in", <<>>)

\* the constructor's report of an exception: the traceback (which ends with
\* the exception's message) in debug mode, a one-line summary otherwise
ErrorReport(dbg, e) ==
    IF dbg THEN Msg("Full error traceback", <<e>>)
    ELSE Msg("Error splitting PDF", <<e>>)

NoRun == [ran |-> FALSE, files |-> {}]

\* ------------------------------------------------------------------- state

Fresh ==
    /\ pc = "start"
    /\ dirExists = FALSE
    /\ files = {}
    /\ out = <<>>
    /\ sections = <<>>
    /\ numPages = NoReader
    /\ results = <<>>
    /\ exc = NoException

Init ==
    /\ doc \in MainDocs
    /\ debug \in BOOLEAN
    /\ firstRun = NoRun
    /\ Fresh

\* ----------------------------------------------------------------- actions

\* variant of CheckInput with os.makedirs moved before the check
CheckInputAfterMakeDirs ==
    /\ pc = "start"
    /\ dirExists' = TRUE
    /\ IF doc.kind = "missing"
       THEN /\ exc' = NotFoundError
            /\ pc' = "except"
       ELSE /\ exc' = exc
            /\ pc' = "extract"
    /\ UNCHANGED <<doc, debug, files, out, sections, numPages, results,
                   firstRun>>

\* split_pdf, lines 105-106: the input path is checked first; a missing
\* input raises FileNotFoundError out of split_pdf.
CheckInput ==
    /\ pc = "start"
    /\ IF doc.kind = "missing"
       THEN /\ exc' = NotFoundError
            /\ pc' = "except"
       ELSE /\ exc' = exc
            /\ pc' = "makedirs"
    /\ UNCHANGED <<doc, debug, dirExists, files, out, sections, numPages,
                   results, firstRun>>

\* line 108: os.makedirs(self.output_dir, exist_ok=True)
MakeDirs ==
    /\ pc = "makedirs"
    /\ dirExists' = TRUE
    /\ pc' = "extract"
    /\ UNCHANGED <<doc, debug, files, out, sections, numPages, results, exc,
                   firstRun>>

\* line 111: sections = self._extract_outline(self.input_pdf)
ExtractOutline ==
    /\ pc = "extract"
    /\ sections' = ExtractOutlineOf(doc)
    /\ pc' = "extracted"
    /\ UNCHANGED <<doc, debug, dirExists, files, out, numPages, results, exc,
                   firstRun>>

\* variant of NoOutline without the return of line 115
NoOutlineWithoutReturn ==
    /\ pc = "extracted"
    /\ sections = <<>>
    /\ out' = Append(out, NoOutlineMsg)
    /\ pc' = "sorted"
    /\ UNCHANGED <<doc, debug, dirExists, files, sections, numPages, results,
                   exc, firstRun>>

\* lines 113-115: no sections: the message, and split_pdf returns
NoOutline ==
    /\ pc = "extracted"
    /\ sections = <<>>
    /\ out' = Append(out, NoOutlineMsg)
    /\ pc' = "returned"
    /\ UNCHANGED <<doc, debug, dirExists, files, sections, numPages, results,
                   exc, firstRun>>

\* variant of SortedDistinct that sorts the list without set()
SortedWithDuplicates(secs) ==
    LET n == Len(secs)
    IN  {[k \in 1..n |-> secs[perm[k]]] :
            perm \in {q \in [1..n -> 1..n] :
                        /\ \A a, b \in 1..n : a # b => q[a] # q[b]
                        /\ \A a, b \in 1..n :
                              a < b => secs[q[a]][2] <= secs[q[b]][2]}}

\* sorted(set(sections), key=lambda x: x[1]): the distinct pairs in
\* ascending page order. sorted is stable, so pairs of equal page keep the
\* iteration order of the set, which Python leaves unspecified (it follows
\* the strings' hashes, salted per process): every order of them can result.
SortedDistinct(secs) ==
    LET S == ToSet(secs)
        n == Cardinality(S)
    IN  {s \in [1..n -> S] :
            /\ \A a, b \in 1..n : a # b => s[a] # s[b]
            /\ \A a, b \in 1..n : a < b => s[a][2] <= s[b][2]}

\* lines 117-118
SortSections ==
    /\ pc = "extracted"
    /\ sections # <<>>
    /\ sections' \in SortedDistinct(sections)
    /\ pc' = "sorted"
    /\ UNCHANGED <<doc, debug, dirExists, files, out, numPages, results, exc,
                   firstRun>>

\* lines 124-128: PdfReader opens the input (or raises, which leaves
\* split_pdf), and ('End', len(reader.pages)) is appended.
OpenReader ==
    /\ pc = "sorted"
    /\ \E opened \in BOOLEAN :
          IF opened
          THEN /\ numPages' = Len(doc.pages)
               /\ sections' = Append(sections, <<EndTitle, Len(doc.pages)>>)
               /\ pc' = "loop"
               /\ exc' = exc
          ELSE /\ exc' = ReaderError
               /\ pc' = "except"
               /\ UNCHANGED <<numPages, sections>>
    /\ UNCHANGED <<doc, debug, dirExists, files, out, results, firstRun>>

\* What one iteration can come to: "ok"; "nofile": an exception before the
\* output file exists (copying a page, opening the file); "partial": an
\* exception in writer.write, after open(output_path, 'wb') created the file.
Outcomes == {"ok", "nofile", "partial"}

WriteFile(fs, f) == {g \in fs : g.name # f.name} \cup {f}

\* variant of AfterSection with the try around the loop
AfterSectionAbort(outcome, last) ==
    IF outcome # "ok" THEN "except"
    ELSE IF last THEN "returned" ELSE "loop"

\* Where the run goes after an iteration: a failed iteration is caught
\* inside the loop (line 152), so the next one runs whatever the outcome;
\* after the last one the loop is exhausted and split_pdf returns.
AfterSection(outcome, last) == IF last THEN "returned" ELSE "loop"

\* lines 131-156, one iteration of the loop, i = Len(results)
SplitSection ==
    /\ pc = "loop"
    /\ Len(results) < Len(sections) - 1
    /\ \E outcome \in Outcomes :
          LET i          == Len(results)
              title      == sections[i + 1][1]
              start_page == sections[i + 1][2]
              end_page   == sections[i + 2][2]
              name       == OutputFilename(i, title)
              written    == [name |-> name, complete |-> TRUE,
                             pages |-> RangeSeq(start_page, end_page)]
              truncated  == [name |-> name, complete |-> FALSE, pages |-> <<>>]
          IN  /\ files' = IF outcome = "ok" THEN WriteFile(files, written)
                          ELSE IF outcome = "partial"
                               THEN WriteFile(files, truncated)
                               ELSE files
              /\ out' = IF outcome = "ok"
                        THEN Append(out, Msg("Created",
                                     <<name, start_page + 1, end_page>>))
                        ELSE out
              /\ results' = Append(results, outcome)
              /\ pc' = AfterSection(outcome, i + 1 = Len(sections) - 1)
              /\ exc' = IF pc' = "except" THEN "section failed" ELSE exc
    /\ UNCHANGED <<doc, debug, dirExists, sections, numPages, firstRun>>

\* __init__, line 28: split_pdf returned
ReportSuccess ==
    /\ pc = "returned"
    /\ out' = Append(out, SuccessMsg)
    /\ pc' = "done"
    /\ UNCHANGED <<doc, debug, dirExists, files, sections, numPages, results,
                   exc, firstRun>>

\* __init__, lines 29-35: split_pdf raised
ReportError ==
    /\ pc = "except"
    /\ out' = Append(out, ErrorReport(debug, exc))
    /\ exc' = NoException
    /\ pc' = "done"
    /\ UNCHANGED <<doc, debug, dirExists, files, sections, numPages, results,
                   firstRun>>

\* run.py run once more on the same input after the output directory was
\* removed. The first run's files are kept for comparison; only a first run
\* that wrote every section is followed by a second one.
Rerun ==
    /\ pc = "done"
    /\ ~firstRun.ran
    /\ results # <<>>
    /\ \A k \in 1..Len(results) : results[k] = "ok"
    /\ firstRun' = [ran |-> TRUE, files |-> files]
    /\ pc' = "start"
    /\ dirExists' = FALSE
    /\ files' = {}
    /\ out' = <<>>
    /\ sections' = <<>>
    /\ numPages' = NoReader
    /\ results' = <<>>
    /\ exc' = NoException
    /\ UNCHANGED <<doc, debug>>

Next ==
    \/ CheckInput
    \/ MakeDirs
    \/ ExtractOutline
    \/ NoOutline
    \/ SortSections
    \/ OpenReader
    \/ SplitSection
    \/ ReportSuccess
    \/ ReportError

Spec == Init /\ [][Next]_vars

\* two runs of the program on the same input
NextRerun == Next \/ Rerun

SpecRerun == Init /\ [][NextRerun]_vars

\* the outline walk alone, from the state in which split_pdf calls
\* _extract_outline, over outline trees of every shape, with the debug
\* setting of run.py
InitWalk ==
    /\ doc \in WalkDocs(MaxNodes, MaxPages)
    /\ debug = TRUE
    /\ firstRun = NoRun
    /\ pc = "extract"
    /\ dirExists = TRUE
    /\ files = {}
    /\ out = <<>>
    /\ sections = <<>>
    /\ numPages = NoReader
    /\ results = <<>>
    /\ exc = NoException

NextWalk == ExtractOutline

SpecWalk == InitWalk /\ [][NextWalk]_vars

\* ------------------------------------------------------------------ claims

\* split_pdf has just returned, without raising
Returned == pc = "returned"

\* the per-section loop was reached: PdfReader opened and 'End' was appended
LoopReached == numPages # NoReader

AllWritten == \A k \in 1..Len(results) : results[k] = "ok"

StrictlyIncreasing ==
    \A a, b \in 1..Len(sections) : a < b => sections[a][2] < sections[b][2]

\* the complete output files that hold page p
Holders(p) == {f \in files : f.complete /\ p \in ToSet(f.pages)}

Printed(m) == \E k \in 1..Len(out) : out[k] = m

\* C1 as stated: when the loop has run over sections of strictly increasing
\* pageIndex and every section was written, every page index of
\* [0, totalPageCount) is in exactly one output file.
C1_PartitionFromZero ==
    (Returned /\ LoopReached /\ StrictlyIncreasing /\ AllWritten)
    => \A p \in 0..(numPages - 1) : Cardinality(Holders(p)) = 1

\* C1 amended: when the loop has run over sections of strictly increasing
\* pageIndex, the ranges partition [sections[0].pageIndex, totalPageCount):
\* a page index before the first section is in no output file; every other
\* page index lies in the range of exactly one section k, and is in the
\* file of section k and in no other file, or in no file at all when
\* writing section k failed.
C1_PartitionFromFirstSection ==
    (Returned /\ LoopReached /\ StrictlyIncreasing)
    => \A p \in 0..(numPages - 1) :
          IF p < sections[1][2] THEN Holders(p) = {}
          ELSE \E k \in 1..Len(results) :
                  /\ sections[k][2] <= p /\ p < sections[k + 1][2]
                  /\ \A m \in 1..Len(results) :
                        (sections[m][2] <= p /\ p < sections[m + 1][2]) => m = k
                  /\ {f.name : f \in Holders(p)} =
                        IF results[k] = "ok"
                        THEN {OutputFilename(k - 1, sections[k][1])}
                        ELSE {}

\* a run of two sections after the first page, both written
C1_Witness ==
    /\ Returned /\ LoopReached /\ StrictlyIncreasing /\ AllWritten
    /\ Len(results) = 2
    /\ sections[1][2] > 0

\* the distinct (title, pageIndex) pairs of the outline walk
WalkedPairs == ToSet(ExtractOutlineOf(doc))

NonEmptyOutline == doc.kind = "ok" /\ doc.nodes # <<>>

\* C2 as stated: for a non-empty outline, when split_pdf has returned the
\* number of output files equals the number of distinct walked pairs.
C2_FilesEqualSections ==
    (Returned /\ NonEmptyOutline) => Cardinality(files) = Cardinality(WalkedPairs)

\* C2 amended: for a non-empty outline, when split_pdf has returned, one
\* iteration was run per distinct walked pair (also for pairs that share a
\* page index), each written section has a complete file of its own, and the
\* number of files is the number of pairs less the iterations that raised
\* before their file existed.
C2_FilesEqualSectionsNotFailed ==
    (Returned /\ NonEmptyOutline)
    => /\ Len(results) = Cardinality(WalkedPairs)
       /\ Cardinality({f \in files : f.complete}) =
             Cardinality({k \in 1..Len(results) : results[k] = "ok"})
       /\ Cardinality(files) =
             Cardinality({k \in 1..Len(results) : results[k] # "nofile"})

\* two differently titled sections on one page, each with its file
C2_Witness ==
    /\ Returned /\ NonEmptyOutline /\ AllWritten
    /\ Len(results) = 2
    /\ sections[1][2] = sections[2][2]
    /\ Cardinality(files) = 2

RECURSIVE Ancestors(_, _)
Ancestors(d, n) ==
    LET p == d.nodes[n].parent
    IN  IF p = 0 THEN {} ELSE {p} \cup Ancestors(d, p)

NodeIds == 1..Len(doc.nodes)

\* the index of the first page whose object is the node's destination
FirstPageOf(n) ==
    CHOOSE i \in 0..(Len(doc.pages) - 1) :
        /\ doc.pages[i + 1] = doc.nodes[n].dest
        /\ \A j \in 0..(i - 1) : doc.pages[j + 1] # doc.nodes[n].dest

\* titled, with a destination whose target is a page
Resolvable(n) ==
    /\ doc.nodes[n].hasTitle
    /\ doc.nodes[n].dest # NoDest
    /\ \E i \in 1..Len(doc.pages) : doc.pages[i] = doc.nodes[n].dest

Faulty(n) == doc.nodes[n].fault # "none"

\* C3 as stated: after the walk, every node that is resolvable, does not
\* raise and has no raising or untitled ancestor has its section in the
\* result, whatever other nodes raised.
C3_FailureSkipsOnlyTheNode ==
    pc = "extracted"
    => \A n \in NodeIds :
          (/\ Resolvable(n) /\ ~Faulty(n)
           /\ \A a \in Ancestors(doc, n) : doc.nodes[a].hasTitle /\ ~Faulty(a))
          => <<doc.nodes[n].title, FirstPageOf(n)>> \in ToSet(sections)

\* C4: once the loop is reached no exception leaves it, and split_pdf
\* returns only after an iteration was run for every adjacent pair of the
\* section sequence, whatever the earlier iterations came to.
C4_EverySectionAttempted ==
    LoopReached
    => /\ pc # "except" /\ exc = NoException
       /\ pc \in {"returned", "done"} => Len(results) = Len(sections) - 1

\* the first section failed and the later ones were still written
C4_Witness ==
    /\ pc = "done" /\ Len(results) = 3
    /\ results[1] = "nofile" /\ results[2] = "partial" /\ results[3] = "ok"

\* the sections were sorted and de-duplicated: right after line 118, and
\* when split_pdf returns from the loop
Sorted == pc = "sorted" \/ (Returned /\ LoopReached)

\* C5 as stated: in the sorted sequence no two sections have the same page
\* index.
C5_OneSectionPerPage ==
    Sorted => \A a, b \in 1..Len(sections) :
                 a # b => sections[a][2] # sections[b][2]

\* the sections of the sequence, without the 'End' entry once it is appended
Resolved == 1..(IF LoopReached THEN Len(sections) - 1 ELSE Len(sections))

\* C5 amended: every walked (title, pageIndex) pair is in the sorted
\* sequence exactly once, however many bookmarks gave it (pairs of different
\* title on one page stay apart); when its iteration succeeds, exactly one
\* file of the run bears its name, and it holds the pages from its page
\* index up to the next section's page index.
C5_OneSectionPerPair ==
    Sorted
    => /\ {sections[k] : k \in Resolved} = WalkedPairs
       /\ \A k, m \in Resolved : sections[k] = sections[m] => k = m
       /\ Returned =>
             \A k \in Resolved :
                results[k] = "ok" =>
                   LET fs == {f \in files :
                                f.name = OutputFilename(k - 1, sections[k][1])}
                   IN  /\ Cardinality(fs) = 1
                       /\ \A f \in fs :
                             /\ f.complete
                             /\ Len(f.pages) = sections[k + 1][2] - sections[k][2]
                             /\ \A j \in 1..Len(f.pages) :
                                   f.pages[j] = sections[k][2] + j - 1

\* two bookmarks of one title on one page, followed by a later section
C5_Witness ==
    /\ Returned /\ AllWritten
    /\ \E a, b \in NodeIds :
          /\ a # b
          /\ doc.nodes[a].title = doc.nodes[b].title
          /\ doc.nodes[a].dest = doc.nodes[b].dest
          /\ doc.nodes[a].dest # NoDest
    /\ Len(results) = 2
    /\ sections[1][2] < sections[2][2]

\* C6 as stated: a second run on the same input, from a reset output
\* directory, in which every section is written as in the first run, leaves
\* the same files (names and pages) as the first run.
C6_SameFilesOnRerun ==
    (firstRun.ran /\ pc = "done" /\ LoopReached /\ AllWritten)
    => files = firstRun.files

ZeroBookmarks ==
    \/ doc.kind \in {"corrupt", "nooutline"}
    \/ doc.kind = "ok" /\ doc.nodes = <<>>

\* C7: for a document without bookmarks (no outline, or pikepdf cannot open
\* it) no file is written, the loop is never reached, no exception is
\* raised, and when split_pdf has returned the message is printed.
C7_NoOutlineNoFiles ==
    ZeroBookmarks
    => /\ files = {}
       /\ pc \notin {"sorted", "loop", "except"}
       /\ ~LoopReached /\ results = <<>>
       /\ exc = NoException
       /\ pc \in {"returned", "done"} => Printed(NoOutlineMsg)
       /\ \A k \in 1..Len(out) : out[k] \in {NoOutlineMsg, SuccessMsg}

\* the run of an undecodable document has ended
C7_Witness == doc.kind = "corrupt" /\ pc = "done" /\ Printed(NoOutlineMsg)

\* C8: for a missing input the output directory is never created, no file
\* is written, the outline is never read, and the run ends with the report
\* of 'Input PDF not found' and no pending exception.
C8_MissingInputAborts ==
    doc.kind = "missing"
    => /\ ~dirExists /\ files = {}
       /\ pc \in {"start", "except", "done"}
       /\ sections = <<>> /\ ~LoopReached
       /\ pc = "except" => exc = NotFoundError
       /\ pc = "done" => /\ exc = NoException
                         /\ out = <<ErrorReport(debug, NotFoundError)>>

\* the run on a missing input has ended, in quiet mode
C8_Witness == doc.kind = "missing" /\ pc = "done" /\ ~debug /\ out # <<>>

\* the section the walk takes from node n
SectionOf(n) == <<doc.nodes[n].title, FirstPageOf(n)>>

\* titled with every ancestor titled, and resolvable
Eligible(n) ==
    /\ Resolvable(n)
    /\ \A a \in Ancestors(doc, n) : doc.nodes[a].hasTitle

\* C9: after a walk in which no node raises, the result holds, once per
\* node, the sections of exactly the nodes that are titled with every
\* ancestor titled and whose destination matches a page, each with the
\* index of the first matching page.
C9_WalkResult ==
    (pc = "extracted" /\ \A n \in NodeIds : ~Faulty(n))
    => \A x \in ToSet(sections) \cup {SectionOf(n) : n \in {m \in NodeIds : Eligible(m)}} :
          Cardinality({k \in 1..Len(sections) : sections[k] = x}) =
          Cardinality({n \in NodeIds : Eligible(n) /\ SectionOf(n) = x})

\* a titled node without destination whose child contributes, beside an
\* untitled node, the destination's target being two pages of the document
C9_Witness ==
    /\ pc = "extracted" /\ \A n \in NodeIds : ~Faulty(n)
    /\ \E n, c, u \in NodeIds :
          /\ doc.nodes[n].hasTitle /\ doc.nodes[n].dest = NoDest
          /\ doc.nodes[c].parent = n /\ Eligible(c)
          /\ SectionOf(c) \in ToSet(sections)
          /\ Cardinality({i \in 1..Len(doc.pages) :
                            doc.pages[i] = doc.nodes[c].dest}) > 1
          /\ ~doc.nodes[u].hasTitle

\* C10 as stated: the two messages are never both printed, and the success
\* message is printed only when the loop was reached.
C10_MessagesExclusive ==
    /\ ~(Printed(NoOutlineMsg) /\ Printed(SuccessMsg))
    /\ Printed(SuccessMsg) => LoopReached

=============================================================================
